---- MODULE Spec2Model ----
(***************************************************************************)
(* Model of src/src/fs.rs: the async File handle, a four-state machine     *)
(* (Idle / InRead / InWrite / InSeek) that lends the blocking std file to  *)
(* one background task at a time and moves bytes through a bounded pipe.   *)
(*                                                                         *)
(* One caller drives the handle by polling; each poll_* function is one    *)
(* atomic action (the whole loop of the function).  The worker thread of   *)
(* the blocking executor runs the spawned task one blocking OS call at a   *)
(* time, interleaved with the polls.                                       *)
(***************************************************************************)
EXTENDS Integers, Sequences, FiniteSets, TLC

VARIABLES
    state,      \* File::state : the State enum (tag and payload presence)
    task,       \* the Task held by the state, as run by the worker thread
    pipe,       \* the piper pipe of the current InRead / InWrite episode
    disk,       \* content of the OS file
    pos,        \* position of the OS file
    live,       \* number of spawned and not yet joined tasks
    ep,         \* history: the current / most recent episode
    acc,        \* history: bytes accepted by poll_write in this episode
    ret,        \* what the last poll returned to the caller
    closed,     \* history: a poll_close has returned Ok
    rt          \* the caller: which kind (pc) and the progress of its script

vars == <<state, task, pipe, disk, pos, live, ep, acc, ret, closed, rt>>

----------------------------------------------------------------------------
(* Bounds *)

MaxByte == 2        \* the data-carrying callers write bytes 1..MaxByte
PipeCap == 2        \* capacity of the pipe in the model
MaxDisk == 3        \* the OS file cannot grow beyond this length
MaxInit == 3        \* length of the file the handle is constructed over
MaxBuf  == 2        \* length of the caller's buffers
MaxOff  == 1        \* magnitude of relative seek offsets

Byte == 1..MaxByte

\* The handle never inspects the bytes it moves.  The caller that is free
\* to poll anything writes one byte value over a file of zero bytes; the
\* callers of the claims about the data itself (WrSpec, RtSpec) write any
\* bytes of Byte.
Plain == {1}

Min(a, b) == IF a < b THEN a ELSE b

RECURSIVE SeqsUpTo(_, _)
SeqsUpTo(S, n) ==
    IF n = 0 THEN {<<>>}
    ELSE LET P == SeqsUpTo(S, n - 1)
         IN  P \cup {Append(s, x) : s \in {q \in P : Len(q) = n - 1}, x \in S}

Take(s, n) == SubSeq(s, 1, n)
Drop(s, n) == SubSeq(s, n + 1, Len(s))

RECURSIVE Zeros(_)
Zeros(n) == IF n <= 0 THEN <<>> ELSE <<0>> \o Zeros(n - 1)

----------------------------------------------------------------------------
(* The State enum and the handle *)

Idle(file)    == [tag |-> "Idle",    file |-> file,  end |-> FALSE]
InRead(end)   == [tag |-> "InRead",  file |-> FALSE, end |-> end]
InWrite(end)  == [tag |-> "InWrite", file |-> FALSE, end |-> end]
InSeek        == [tag |-> "InSeek",  file |-> FALSE, end |-> FALSE]

NoTarget == [whence |-> "None", off |-> 0]

SeekFrom ==
    [whence : {"Start"}, off : 0..MaxDisk]
        \cup [whence : {"Current"}, off : (0 - MaxOff)..MaxOff]
        \cup [whence : {"End"}, off : (0 - MaxOff)..0]

\* A spawned task.  res is the io::Result it returns, val the position a
\* seek task returns; for a write task drain is how its loop ended, flres
\* the result of its file.flush() and nflush the number of file.flush()
\* calls it made.
NoTask == [kind |-> "none", pc |-> "joined", res |-> "ok",
           target |-> NoTarget, val |-> 0,
           drain |-> "none", flres |-> "none", nflush |-> 0]

NewTask(kind, target) ==
    [kind |-> kind, pc |-> "run", res |-> "ok", target |-> target, val |-> 0,
     drain |-> "none", flres |-> "none", nflush |-> 0]

\* The pipe of piper::pipe: the bytes in flight and the flag that either end
\* sets when it is dropped.  poll_fill returns Ok(0) on a closed pipe, is
\* pending on a full open one and otherwise moves what fits; poll_drain is
\* pending on an empty open pipe, returns Ok(0) on an empty closed one and
\* otherwise moves what the destination takes, also after the writer is gone.
NoPipe  == [buf |-> <<>>, closed |-> TRUE]
NewPipe == [buf |-> <<>>, closed |-> FALSE]

\* History of an episode.  lpos: the caller's logical position in a read
\* episode (its start position plus the bytes delivered so far); start: the
\* OS position at which a write episode began; prevkind, prevend: the kind
\* and final lpos of the episode before a write episode; bp: a poll_write of
\* the episode found the pipe full; infl: the bytes in the pipe when
\* poll_stop dropped the handle's end of it.
NoEp == [kind |-> "none", start |-> 0, lpos |-> 0,
         prevkind |-> "none", prevend |-> 0, bp |-> FALSE, infl |-> 0]

\* What a poll observed when it joined a task: the task's kind, the bytes
\* left in the pipe, and for a write task whether the OS file holds exactly
\* the accepted bytes at the episode's start position (intact), how many
\* were accepted (wlen) and whether the episode saw back-pressure (bp); the
\* task's result was an error (err); the target of a seek task (tgt); the
\* bytes that were in the pipe when poll_stop dropped the handle's end (infl).
NoJoin == [kind |-> "none", left |-> 0, intact |-> FALSE, wlen |-> 0,
           bp |-> FALSE, err |-> FALSE, tgt |-> NoTarget, infl |-> 0]

\* What the last poll returned (op, res, val; tgt: the target of a seek; re:
\* the seek met an in-flight seek for another target; j: the join it made;
\* eof: 1 once a read has returned 0 at end-of-stream, 2 once a further read
\* has returned, 0 again after anything but reads and flushes that follow a
\* completed operation; after: the handle was closed when it was polled),
\* or under the caller "blind" its outcome res alone.
NoRet == [op |-> "none", res |-> "none", val |-> 0,
          tgt |-> NoTarget, j |-> NoJoin, re |-> FALSE,
          eof |-> 0, after |-> FALSE]

\* The handle as one value, for the poll functions below.
Cur == [state |-> state, task |-> task, pipe |-> pipe, live |-> live,
        ep |-> ep, acc |-> acc, closed |-> closed, pos |-> pos,
        disk |-> disk, j |-> NoJoin]

Out(h, res, val, data) == [h |-> h, res |-> res, val |-> val, data |-> data]

----------------------------------------------------------------------------
(* Task join:  let (res, io) = ready!(Pin::new(task).poll(cx));            *)
(*             self.state = State::Idle(Some(io));                         *)

TaskReady(h) == h.task.pc = "done"

Intact(h) ==
    /\ h.pos = h.ep.start + Len(h.acc)
    /\ \A i \in 1..Len(h.acc) :
           /\ h.ep.start + i <= Len(h.disk)
           /\ h.disk[h.ep.start + i] = h.acc[i]

\* what the poll that joins the task of h observes
Joined(h) ==
    [kind   |-> h.task.kind,
     left   |-> Len(h.pipe.buf),
     intact |-> h.task.kind = "write" /\ Intact(h),
     wlen   |-> Len(h.acc),
     bp     |-> h.ep.bp,
     err    |-> h.task.res = "err",
     tgt    |-> h.task.target,
     infl   |-> h.ep.infl]

\* poll_stop / poll_read / poll_seek writing State::Idle(None) after the join
JoinTaskDropsFile(h) ==
    [h EXCEPT !.state = Idle(FALSE),
              !.task  = NoTask,
              !.live  = @ - 1,
              !.pipe  = NoPipe,
              !.j     = Joined(h),
              !.ep    = [NoEp EXCEPT !.kind = h.ep.kind, !.lpos = h.ep.lpos],
              !.acc   = <<>>]

\* a join that takes the result and leaves self.state as it was
JoinTaskStays(h) == [h EXCEPT !.j = Joined(h)]

JoinTask(h) ==
    [h EXCEPT !.state = Idle(TRUE),
              !.task  = NoTask,
              !.live  = @ - 1,
              !.pipe  = NoPipe,
              !.j     = Joined(h),
              !.ep    = [NoEp EXCEPT !.kind = h.ep.kind, !.lpos = h.ep.lpos],
              !.acc   = <<>>]

\* drop(reader.take()) / drop(writer.take())
DropEnd(h) ==
    IF h.state.end
    THEN [h EXCEPT !.state.end = FALSE, !.pipe.closed = TRUE,
                   !.ep.infl = Len(h.pipe.buf)]
    ELSE h

\* poll_stop with  res?  placed before  self.state = State::Idle(Some(io))
PollStopErrFirst(h) ==
    IF h.state.tag = "Idle" THEN Out(h, "ok", 0, <<>>)
    ELSE LET h1 == IF h.state.tag \in {"InRead", "InWrite"} THEN DropEnd(h) ELSE h
         IN  IF ~TaskReady(h1) THEN Out(h1, "pending", 0, <<>>)
             ELSE IF h1.task.res = "err"
                  THEN Out([h1 EXCEPT !.j.kind = h1.task.kind], "err", 0, <<>>)
                  ELSE Out(JoinTask(h1), "ok", 0, <<>>)

\* File::poll_stop
PollStop(h) ==
    IF h.state.tag = "Idle" THEN Out(h, "ok", 0, <<>>)
    ELSE LET h1 == IF h.state.tag \in {"InRead", "InWrite"} THEN DropEnd(h) ELSE h
         IN  IF ~TaskReady(h1) THEN Out(h1, "pending", 0, <<>>)
             ELSE LET h2 == JoinTask(h1)
                  IN  IF h1.task.res = "err" THEN Out(h2, "err", 0, <<>>)
                      ELSE Out(h2, "ok", 0, <<>>)

----------------------------------------------------------------------------
(* poll_read *)

SpawnRead(h) ==
    [h EXCEPT !.state = InRead(TRUE),
              !.pipe  = NewPipe,
              !.task  = NewTask("read", NoTarget),
              !.live  = @ + 1,
              !.ep    = [NoEp EXCEPT !.kind = "read", !.lpos = h.pos],
              !.acc   = <<>>]

\* The end-of-stream test of poll_read: n == 0
IsEof(n) == n = 0

\* poll_read returning Ok(0) at end-of-stream without joining the task
ReadInReadNoJoin(h, n) ==
    IF ~h.state.end THEN Out(h, "panic", 0, <<>>)
    ELSE IF h.pipe.buf = <<>> /\ ~h.pipe.closed THEN Out(h, "pending", 0, <<>>)
    ELSE LET c  == Min(n, Len(h.pipe.buf))
             h1 == [h EXCEPT !.pipe.buf = Drop(@, c), !.ep.lpos = @ + c]
         IN  IF IsEof(c)
             THEN IF ~TaskReady(h1) THEN Out(h1, "pending", 0, <<>>)
                  ELSE Out(h1, "ok", 0, <<>>)
             ELSE Out(h1, "ok", c, Take(h.pipe.buf, c))

\* poll_read without  res?  after the join at end-of-stream
ReadInReadDropsErr(h, n) ==
    IF ~h.state.end THEN Out(h, "panic", 0, <<>>)
    ELSE IF h.pipe.buf = <<>> /\ ~h.pipe.closed THEN Out(h, "pending", 0, <<>>)
    ELSE LET c  == Min(n, Len(h.pipe.buf))
             h1 == [h EXCEPT !.pipe.buf = Drop(@, c), !.ep.lpos = @ + c]
         IN  IF IsEof(c)
             THEN IF ~TaskReady(h1) THEN Out(h1, "pending", 0, <<>>)
                  ELSE Out(JoinTask(h1), "ok", 0, <<>>)
             ELSE Out(h1, "ok", c, Take(h.pipe.buf, c))

\* State::InRead arm of poll_read; n is buf.len()
ReadInRead(h, n) ==
    IF ~h.state.end THEN Out(h, "panic", 0, <<>>)
    ELSE IF h.pipe.buf = <<>> /\ ~h.pipe.closed THEN Out(h, "pending", 0, <<>>)
    ELSE LET c  == Min(n, Len(h.pipe.buf))
             h1 == [h EXCEPT !.pipe.buf = Drop(@, c), !.ep.lpos = @ + c]
         IN  IF IsEof(c)
             THEN IF ~TaskReady(h1) THEN Out(h1, "pending", 0, <<>>)
                  ELSE LET h2 == JoinTask(h1)
                       IN  IF h1.task.res = "err" THEN Out(h2, "err", 0, <<>>)
                           ELSE Out(h2, "ok", 0, <<>>)
             ELSE Out(h1, "ok", c, Take(h.pipe.buf, c))

\* State::Idle arm of poll_read followed by the next loop iteration
ReadIdle(h, n) ==
    IF ~h.state.file THEN Out(h, "panic", 0, <<>>)
    ELSE ReadInRead(SpawnRead(h), n)

PollRead(h, n) ==
    CASE h.state.tag = "Idle"   -> ReadIdle(h, n)
      [] h.state.tag = "InRead" -> ReadInRead(h, n)
      [] OTHER -> LET s == PollStop(h)
                  IN  IF s.res = "ok" THEN ReadIdle(s.h, n) ELSE s

----------------------------------------------------------------------------
(* poll_write *)

SpawnWrite(h) ==
    [h EXCEPT !.state = InWrite(TRUE),
              !.pipe  = NewPipe,
              !.task  = NewTask("write", NoTarget),
              !.live  = @ + 1,
              !.ep    = [NoEp EXCEPT !.kind = "write", !.start = h.pos,
                                     !.prevkind = h.ep.kind,
                                     !.prevend  = h.ep.lpos],
              !.acc   = <<>>]

\* poll_write reporting the whole buffer as accepted when only a part fits
WriteInWriteOverflow(h, b) ==
    IF ~h.state.end THEN Out(h, "panic", 0, <<>>)
    ELSE IF h.pipe.closed THEN Out(h, "ok", 0, <<>>)
    ELSE IF Len(h.pipe.buf) = PipeCap
         THEN Out([h EXCEPT !.ep.bp = TRUE], "pending", 0, <<>>)
    ELSE LET c == Min(Len(b), PipeCap - Len(h.pipe.buf))
         IN  Out([h EXCEPT !.pipe.buf = @ \o Take(b, c),
                           !.acc = @ \o b],
                 "ok", Len(b), <<>>)

\* State::InWrite arm of poll_write; b is buf
WriteInWrite(h, b) ==
    IF ~h.state.end THEN Out(h, "panic", 0, <<>>)
    ELSE IF h.pipe.closed THEN Out(h, "ok", 0, <<>>)
    ELSE IF Len(h.pipe.buf) = PipeCap
         THEN Out([h EXCEPT !.ep.bp = TRUE], "pending", 0, <<>>)
    ELSE LET c == Min(Len(b), PipeCap - Len(h.pipe.buf))
         IN  Out([h EXCEPT !.pipe.buf = @ \o Take(b, c),
                           !.acc = @ \o Take(b, c)],
                 "ok", c, <<>>)

WriteIdle(h, b) ==
    IF ~h.state.file THEN Out(h, "panic", 0, <<>>)
    ELSE WriteInWrite(SpawnWrite(h), b)

PollWrite(h, b) ==
    CASE h.state.tag = "Idle"    -> WriteIdle(h, b)
      [] h.state.tag = "InWrite" -> WriteInWrite(h, b)
      [] OTHER -> LET s == PollStop(h)
                  IN  IF s.res = "ok" THEN WriteIdle(s.h, b) ELSE s

----------------------------------------------------------------------------
(* poll_flush, poll_close *)

\* poll_flush flushing an Idle handle through a background task
PollFlushSpawns(h) ==
    IF h.state.tag = "Idle"
    THEN (IF h.state.file THEN Out(SpawnWrite(h), "pending", 0, <<>>)
                          ELSE Out(h, "ok", 0, <<>>))
    ELSE PollStop(h)

\* File::poll_flush
PollFlush(h) ==
    IF h.state.tag = "Idle" THEN Out(h, "ok", 0, <<>>)
    ELSE PollStop(h)

\* poll_close without  self.state = State::Idle(None)
ReleaseKeeps(h) == [h EXCEPT !.closed = TRUE]

\* self.state = State::Idle(None)
Release(h) == [h EXCEPT !.state = Idle(FALSE), !.closed = TRUE]

\* poll_close asserting that the handle still owns its file
PollCloseStrict(h) ==
    IF h.state.tag = "Idle" /\ ~h.state.file THEN Out(h, "panic", 0, <<>>)
    ELSE LET f == PollFlush(h)
         IN  IF f.res = "ok" THEN Out(Release(f.h), "ok", 0, <<>>) ELSE f

\* File::poll_close
PollClose(h) ==
    LET f == PollFlush(h)
    IN  IF f.res = "ok" THEN Out(Release(f.h), "ok", 0, <<>>) ELSE f

----------------------------------------------------------------------------
(* poll_seek *)

SpawnSeek(h, t) ==
    [h EXCEPT !.state = InSeek,
              !.task  = NewTask("seek", t),
              !.live  = @ + 1,
              !.ep    = [NoEp EXCEPT !.kind = "seek"],
              !.acc   = <<>>]

\* poll_seek returning whatever seek completed
SameTargetAlways(orig, t) == TRUE

\* original_pos == pos
SameTarget(orig, t) == orig = t

\* State::Idle arm of poll_seek followed by the next loop iteration:
\* the task was spawned in this poll and has not run.
SeekIdle(h, t) ==
    IF ~h.state.file THEN Out(h, "panic", 0, <<>>)
    ELSE Out(SpawnSeek(h, t), "pending", 0, <<>>)

\* poll_seek testing  original_pos == pos  before  res?
SeekInSeekStaleFirst(h, t) ==
    IF ~TaskReady(h) THEN Out(h, "pending", 0, <<>>)
    ELSE LET h1 == JoinTask(h)
         IN  IF ~SameTarget(h.task.target, t) THEN SeekIdle(h1, t)
             ELSE IF h.task.res = "err" THEN Out(h1, "err", 0, <<>>)
             ELSE Out(h1, "ok", h.task.val, <<>>)

\* State::InSeek arm of poll_seek
SeekInSeek(h, t) ==
    IF ~TaskReady(h) THEN Out(h, "pending", 0, <<>>)
    ELSE LET h1 == JoinTask(h)
         IN  IF h.task.res = "err" THEN Out(h1, "err", 0, <<>>)
             ELSE IF SameTarget(h.task.target, t)
                  THEN Out(h1, "ok", h.task.val, <<>>)
                  ELSE SeekIdle(h1, t)

PollSeek(h, t) ==
    CASE h.state.tag = "Idle"   -> SeekIdle(h, t)
      [] h.state.tag = "InSeek" -> SeekInSeek(h, t)
      [] OTHER -> LET s == PollStop(h)
                  IN  IF s.res = "ok" THEN SeekIdle(s.h, t) ELSE s

----------------------------------------------------------------------------
(* The caller: any poll at any time, until an assertion fails *)

Panicked == ret.res = "panic"

\* the caller gives up the operation that returned not-ready for another
Abandons(op) == ret.res = "pending" /\ ret.op # op

\* a read returned Ok(0) with the OS file exhausted and the pipe drained
AtEos(o) ==
    /\ o.res = "ok" /\ o.val = 0
    /\ o.h.j.left = 0 /\ o.h.pipe.buf = <<>>
    /\ pos >= Len(disk)

EofChain(o, op) ==
    IF op = "read"
    THEN IF ret.eof > 0 /\ ~Abandons(op)
         THEN (IF o.res = "pending" THEN ret.eof ELSE 2)
         ELSE (IF AtEos(o) THEN 1 ELSE 0)
    ELSE IF op = "flush" /\ ~Abandons(op) THEN ret.eof
    ELSE 0

Commit(o, op, tgt, re) ==
    /\ state'  = o.h.state
    /\ task'   = o.h.task
    /\ pipe'   = o.h.pipe
    /\ live'   = o.h.live
    /\ ep'     = o.h.ep
    /\ acc'    = o.h.acc
    /\ closed' = o.h.closed
    /\ ret'    = IF rt.pc \in {"blind", "poll"}
                 THEN [NoRet EXCEPT !.res = o.res]
                 ELSE [op |-> op, res |-> o.res, val |-> o.val,
                       tgt |-> tgt, j |-> o.h.j, re |-> re,
                       eof |-> EofChain(o, op), after |-> closed]
    /\ UNCHANGED <<disk, pos>>

CallRead ==
    \E n \in 0..MaxBuf : Commit(PollRead(Cur, n), "read", NoTarget, FALSE)

CallWrite ==
    \E b \in SeqsUpTo(Plain, MaxBuf) :
        Commit(PollWrite(Cur, b), "write", NoTarget, FALSE)

CallFlush == Commit(PollFlush(Cur), "flush", NoTarget, FALSE)

CallClose == Commit(PollClose(Cur), "close", NoTarget, FALSE)

\* re: this seek was issued, or is being re-polled, after it met an
\* in-flight seek task for a different target
CallSeek ==
    \E t \in SeekFrom :
        LET met  == state.tag = "InSeek" /\ task.target # t
            cont == ret.op = "seek" /\ ret.tgt = t /\ ret.res = "pending" /\ ret.re
        IN  Commit(PollSeek(Cur, t), "seek", t, met \/ cont)

Caller ==
    /\ ~Panicked
    /\ rt.pc \in {"off", "blind"}
    /\ (CallRead \/ CallWrite \/ CallFlush \/ CallClose \/ CallSeek)
    /\ UNCHANGED rt

----------------------------------------------------------------------------
(* The OS file *)

\* std::fs::File::seek : the resulting position, or -1 for an OS error
OsSeek(t) ==
    LET p == CASE t.whence = "Start"   -> t.off
               [] t.whence = "Current" -> pos + t.off
               [] t.whence = "End"     -> Len(disk) + t.off
               [] OTHER                -> 0 - 1
    IN  IF p < 0 \/ p > MaxDisk THEN 0 - 1 ELSE p

\* std::fs::File::write of the sequence w at the current position
OsWrite(w) ==
    LET gap  == Zeros(pos - Len(disk))
        base == disk \o gap
    IN  Take(base, pos) \o w \o Drop(base, pos + Len(w))

----------------------------------------------------------------------------
(* The worker thread: the spawned async blocks.  A step is one blocking OS  *)
(* call, which may transfer fewer bytes than asked for or fail; a finished  *)
(* block drops its end of the pipe (pc "exit") before the executor makes    *)
(* its output available to the handle (pc "done").                          *)

Finish(res) == task' = [task EXCEPT !.pc = "exit", !.res = res]

\* the write pump returns res after its loop ended with drain and its one
\* file.flush() returned fl
FinishWrite(res, drain, fl) ==
    task' = [task EXCEPT !.pc = "exit", !.res = res, !.drain = drain,
                         !.flres = fl, !.nflush = @ + 1]

\* read pump that does not return on Ok(0) from a closed pipe
ReadPumpStepNoCancel ==
    /\ task.kind = "read" /\ task.pc = "run"
    /\ UNCHANGED <<state, live, ep, acc, ret, closed, rt, disk>>
    /\ Len(pipe.buf) < PipeCap
    /\ \/ /\ Finish("err")
          /\ pipe' = [pipe EXCEPT !.closed = TRUE]
          /\ UNCHANGED pos
       \/ /\ pos >= Len(disk)
          /\ Finish("ok")
          /\ pipe' = [pipe EXCEPT !.closed = TRUE]
          /\ UNCHANGED pos
       \/ \E r \in 1..Min(PipeCap - Len(pipe.buf), Len(disk) - pos) :
              /\ pipe' = [pipe EXCEPT !.buf = @ \o SubSeq(disk, pos + 1, pos + r)]
              /\ pos' = pos + r
              /\ UNCHANGED task

\* read pump: one writer.poll_fill(cx, &mut file)
ReadPumpStep ==
    /\ task.kind = "read" /\ task.pc = "run"
    /\ UNCHANGED <<state, live, ep, acc, ret, closed, rt, disk>>
    /\ IF pipe.closed
       THEN \* Ok(0) => return (Ok(()), file)
            /\ Finish("ok")
            /\ UNCHANGED <<pipe, pos>>
       ELSE /\ Len(pipe.buf) < PipeCap          \* suspended while full
            /\ \/ \* Err(err) => return (Err(err), file)
                  /\ Finish("err")
                  /\ pipe' = [pipe EXCEPT !.closed = TRUE]
                  /\ UNCHANGED pos
               \/ \* the file is exhausted: Ok(0)
                  /\ pos >= Len(disk)
                  /\ Finish("ok")
                  /\ pipe' = [pipe EXCEPT !.closed = TRUE]
                  /\ UNCHANGED pos
               \/ \* Ok(_) => {}
                  \E r \in 1..Min(PipeCap - Len(pipe.buf), Len(disk) - pos) :
                      /\ pipe' = [pipe EXCEPT !.buf = @ \o SubSeq(disk, pos + 1, pos + r)]
                      /\ pos' = pos + r
                      /\ UNCHANGED task

\* write pump returning (file.flush(), file) from its Err arm
WritePumpStepSwallow ==
    /\ task.kind = "write" /\ task.pc = "run"
    /\ UNCHANGED <<state, live, ep, acc, ret, closed, rt>>
    /\ IF pipe.buf = <<>>
       THEN /\ pipe.closed
            /\ \E fl \in {"ok", "err"} : FinishWrite(fl, "ok", fl)
            /\ UNCHANGED <<pipe, disk, pos>>
       ELSE \/ /\ \E fl \in {"ok", "err"} : FinishWrite(fl, "err", fl)
               /\ pipe' = [pipe EXCEPT !.closed = TRUE]
               /\ UNCHANGED <<disk, pos>>
            \/ \E r \in 1..Min(Len(pipe.buf), MaxDisk - pos) :
                   /\ disk' = OsWrite(Take(pipe.buf, r))
                   /\ pos' = pos + r
                   /\ pipe' = [pipe EXCEPT !.buf = Drop(@, r)]
                   /\ UNCHANGED task

\* write pump whose poll_drain returns Ok(0) as soon as the writer is gone
WritePumpStepDiscard ==
    /\ task.kind = "write" /\ task.pc = "run"
    /\ UNCHANGED <<state, live, ep, acc, ret, closed, rt>>
    /\ IF pipe.closed
       THEN /\ \E fl \in {"ok", "err"} : FinishWrite(fl, "ok", fl)
            /\ UNCHANGED <<pipe, disk, pos>>
       ELSE /\ pipe.buf # <<>>
            /\ \/ /\ \E fl \in {"ok", "err"} : FinishWrite("err", "err", fl)
                  /\ pipe' = [pipe EXCEPT !.closed = TRUE]
                  /\ UNCHANGED <<disk, pos>>
               \/ \E r \in 1..Min(Len(pipe.buf), MaxDisk - pos) :
                      /\ disk' = OsWrite(Take(pipe.buf, r))
                      /\ pos' = pos + r
                      /\ pipe' = [pipe EXCEPT !.buf = Drop(@, r)]
                      /\ UNCHANGED task

\* write pump whose Err arm returns without  file.flush().ok()
WritePumpStepNoFlush ==
    /\ task.kind = "write" /\ task.pc = "run"
    /\ UNCHANGED <<state, live, ep, acc, ret, closed, rt>>
    /\ IF pipe.buf = <<>>
       THEN /\ pipe.closed
            /\ \E fl \in {"ok", "err"} : FinishWrite(fl, "ok", fl)
            /\ UNCHANGED <<pipe, disk, pos>>
       ELSE \/ /\ task' = [task EXCEPT !.pc = "exit", !.res = "err",
                                        !.drain = "err"]
               /\ pipe' = [pipe EXCEPT !.closed = TRUE]
               /\ UNCHANGED <<disk, pos>>
            \/ \E r \in 1..Min(Len(pipe.buf), MaxDisk - pos) :
                   /\ disk' = OsWrite(Take(pipe.buf, r))
                   /\ pos' = pos + r
                   /\ pipe' = [pipe EXCEPT !.buf = Drop(@, r)]
                   /\ UNCHANGED task

\* write pump: one reader.poll_drain(cx, &mut file)
WritePumpStep ==
    /\ task.kind = "write" /\ task.pc = "run"
    /\ UNCHANGED <<state, live, ep, acc, ret, closed, rt>>
    /\ IF pipe.buf = <<>>
       THEN \* Ok(0) => return (file.flush(), file)
            /\ pipe.closed                       \* suspended while open
            /\ \E fl \in {"ok", "err"} : FinishWrite(fl, "ok", fl)
            /\ UNCHANGED <<pipe, disk, pos>>     \* the pipe is closed already
       ELSE \/ \* Err(err) => { file.flush().ok(); return (Err(err), file) }
               /\ \E fl \in {"ok", "err"} : FinishWrite("err", "err", fl)
               /\ pipe' = [pipe EXCEPT !.closed = TRUE]
               /\ UNCHANGED <<disk, pos>>
            \/ \* Ok(_) => {}
               \E r \in 1..Min(Len(pipe.buf), MaxDisk - pos) :
                   /\ disk' = OsWrite(Take(pipe.buf, r))
                   /\ pos' = pos + r
                   /\ pipe' = [pipe EXCEPT !.buf = Drop(@, r)]
                   /\ UNCHANGED task

\* seek task: let res = file.seek(pos); (pos, res, file)
SeekTaskStep ==
    /\ task.kind = "seek" /\ task.pc = "run"
    /\ UNCHANGED <<state, live, ep, acc, ret, closed, rt, pipe, disk>>
    /\ \/ /\ Finish("err")
          /\ UNCHANGED pos
       \/ /\ OsSeek(task.target) >= 0
          /\ task' = [task EXCEPT !.pc = "exit", !.res = "ok",
                                  !.val = OsSeek(task.target)]
          /\ pos' = OsSeek(task.target)

\* the executor stores the output of the finished future
TaskComplete ==
    /\ task.pc = "exit"
    /\ task' = [task EXCEPT !.pc = "done"]
    /\ UNCHANGED <<state, pipe, disk, pos, live, ep, acc, ret, closed, rt>>

Worker == ReadPumpStep \/ WritePumpStep \/ SeekTaskStep \/ TaskComplete

----------------------------------------------------------------------------

(* tests::open_read_and_write, for any B: write_all(B), seek(Start(0)),     *)
(* read_exact of len(B) bytes, close; every step is unwrapped.             *)

RtOff == [pc |-> "off", B |-> <<>>, rest |-> <<>>, got |-> <<>>,
          why |-> "none",
          call |-> [op |-> "none", n |-> 0, b |-> <<>>, t |-> NoTarget]]

\* why a step failed: "io" when an OS call of the task at hand had failed,
\* "short" for a WriteZero / UnexpectedEof with no OS error, "panic"
RtFail(o) ==
    [rt EXCEPT !.pc = "failed",
               !.why = IF o.res = "panic" THEN "panic"
                       ELSE IF o.res = "err" \/ task.res = "err" THEN "io"
                       ELSE "short"]

\* write_all: poll_write until the buffer is empty; Ok(0) is WriteZero
RtWrite ==
    /\ rt.pc = "write"
    /\ IF rt.rest = <<>>
       THEN /\ rt' = [rt EXCEPT !.pc = "seek"]
            /\ UNCHANGED <<state, task, pipe, disk, pos, live, ep, acc, ret, closed>>
       ELSE LET o == PollWrite(Cur, rt.rest)
            IN  /\ Commit(o, "write", NoTarget, FALSE)
                /\ rt' = CASE o.res = "pending" -> rt
                            [] o.res = "ok" /\ o.val > 0 ->
                                   [rt EXCEPT !.rest = Drop(@, o.val)]
                            [] OTHER -> RtFail(o)

RtSeek ==
    /\ rt.pc = "seek"
    /\ LET t == [whence |-> "Start", off |-> 0]
           o == PollSeek(Cur, t)
       IN  /\ Commit(o, "seek", t, FALSE)
           /\ rt' = CASE o.res = "pending" -> rt
                       [] o.res = "ok" -> [rt EXCEPT !.pc = "read"]
                       [] OTHER -> RtFail(o)

\* reads totalling len(B): poll_read with any non-empty buffer that is no
\* longer than what is still missing; Ok(0) is UnexpectedEof
RtRead ==
    /\ rt.pc = "read"
    /\ IF Len(rt.got) = Len(rt.B)
       THEN /\ rt' = [rt EXCEPT !.pc = "close"]
            /\ UNCHANGED <<state, task, pipe, disk, pos, live, ep, acc, ret, closed>>
       ELSE \E n \in 1..(Len(rt.B) - Len(rt.got)) :
               LET o == PollRead(Cur, n)
               IN  /\ Commit(o, "read", NoTarget, FALSE)
                   /\ rt' = CASE o.res = "pending" -> rt
                               [] o.res = "ok" /\ o.val > 0 ->
                                      [rt EXCEPT !.got = @ \o o.data]
                               [] OTHER -> RtFail(o)

RtClose ==
    /\ rt.pc = "close"
    /\ LET o == PollClose(Cur)
       IN  /\ Commit(o, "close", NoTarget, FALSE)
           /\ rt' = CASE o.res = "pending" -> rt
                       [] o.res = "ok" -> [rt EXCEPT !.pc = "done"]
                       [] OTHER -> RtFail(o)

RtCaller == RtWrite \/ RtSeek \/ RtRead \/ RtClose

----------------------------------------------------------------------------

\* File::from(file), over a file that was just opened
InitHandle ==
    /\ state = Idle(TRUE)
    /\ task = NoTask
    /\ pipe = NoPipe
    /\ pos = 0
    /\ live = 0
    /\ ep = NoEp
    /\ acc = <<>>
    /\ ret = NoRet
    /\ closed = FALSE

Init ==
    /\ InitHandle
    /\ disk \in {Zeros(n) : n \in 0..MaxInit}
    /\ rt = RtOff

Next == Caller \/ Worker

Spec == Init /\ [][Next]_vars

\* The same caller with a fair worker thread: the executor runs a spawned
\* task whenever it can run.  Of a poll only the outcome is recorded.
FairInit ==
    /\ InitHandle
    /\ disk \in {Zeros(n) : n \in 0..MaxInit}
    /\ rt = [RtOff EXCEPT !.pc = "blind"]

FairSpec == FairInit /\ [][Next]_vars /\ WF_vars(Worker)

\* The round trip over an empty file, for every B
RtInit ==
    /\ InitHandle
    /\ disk = <<>>
    /\ \E B \in SeqsUpTo(Byte, MaxDisk) :
           rt = [RtOff EXCEPT !.pc = "write", !.B = B, !.rest = B]

RtNext == RtCaller \/ Worker

RtSpec == RtInit /\ [][RtNext]_vars

\* A caller that polls every call it issues until the call returns: call is
\* the operation and the argument of the call that has not returned yet.
NoCall == [op |-> "none", n |-> 0, b |-> <<>>, t |-> NoTarget]

Calls ==
    {[NoCall EXCEPT !.op = "read", !.n = n] : n \in 0..MaxBuf}
        \cup {[NoCall EXCEPT !.op = "write", !.b = b] : b \in SeqsUpTo(Plain, MaxBuf)}
        \cup {[NoCall EXCEPT !.op = "seek", !.t = t] : t \in SeekFrom}
        \cup {[NoCall EXCEPT !.op = op] : op \in {"flush", "close"}}

PollOf(c) ==
    CASE c.op = "read"  -> PollRead(Cur, c.n)
      [] c.op = "write" -> PollWrite(Cur, c.b)
      [] c.op = "seek"  -> PollSeek(Cur, c.t)
      [] c.op = "flush" -> PollFlush(Cur)
      [] OTHER          -> PollClose(Cur)

\* the caller issues a call on a handle it has not closed
PollIssue ==
    /\ ~Panicked /\ ~closed
    /\ rt.pc = "poll" /\ rt.call = NoCall
    /\ \E c \in Calls : rt' = [rt EXCEPT !.call = c]
    /\ UNCHANGED <<state, task, pipe, disk, pos, live, ep, acc, ret, closed>>

\* the executor polls the call; it is over when the poll is Ready
PollAgain ==
    /\ ~Panicked
    /\ rt.pc = "poll" /\ rt.call # NoCall
    /\ LET o == PollOf(rt.call)
       IN  /\ Commit(o, rt.call.op, rt.call.t, FALSE)
           /\ rt' = [rt EXCEPT !.call = IF o.res = "pending" THEN @ ELSE NoCall]

PollInit ==
    /\ InitHandle
    /\ disk \in {Zeros(n) : n \in 0..MaxInit}
    /\ rt = [RtOff EXCEPT !.pc = "poll"]

PollNext == PollIssue \/ PollAgain \/ Worker

\* the worker thread is fair, and a call that is not ready is polled again
PollSpec ==
    PollInit /\ [][PollNext]_vars /\ WF_vars(Worker) /\ WF_vars(PollAgain)

\* A caller that only writes, flushes and closes, with any bytes
WrWrite ==
    \E b \in SeqsUpTo(Byte, MaxBuf) :
        Commit(PollWrite(Cur, b), "write", NoTarget, FALSE)

WrCaller ==
    /\ ~Panicked
    /\ rt.pc = "stream"
    /\ (WrWrite \/ CallFlush \/ CallClose)
    /\ UNCHANGED rt

WrInit ==
    /\ InitHandle
    /\ disk \in {Zeros(n) : n \in 0..MaxInit}
    /\ rt = [RtOff EXCEPT !.pc = "stream"]

WrNext == WrCaller \/ WritePumpStep \/ TaskComplete

WrSpec == WrInit /\ [][WrNext]_vars

----------------------------------------------------------------------------
(* Properties *)

IdleOwner == IF state.tag = "Idle" /\ state.file THEN 1 ELSE 0

\* C1: until a close completes the OS file has exactly one owner, the Idle
\* slot or the one spawned and not yet joined task whose kind is the state's;
\* two tasks are never live at once.
C1_SingleOwner ==
    ~closed =>
        /\ IdleOwner + live = 1
        /\ live = (IF task.pc \in {"run", "exit", "done"} THEN 1 ELSE 0)
        /\ state.tag = "Idle"    <=> task.kind = "none"
        /\ state.tag = "InRead"  <=> task.kind = "read"
        /\ state.tag = "InWrite" <=> task.kind = "write"
        /\ state.tag = "InSeek"  <=> task.kind = "seek"

\* a write task running after a read task was joined
C1_Witness ==
    /\ ~closed
    /\ state.tag = "InWrite" /\ task.pc = "run" /\ live = 1
    /\ ep.prevkind = "read"

\* C2: when a poll returns an I/O error, the error is the result of the task
\* the poll joined, the handle is Idle with the OS file, and each of read,
\* write and seek polled next spawns a task without a failed assertion.
C2_ErrorLeavesIdle ==
    ret.res = "err" =>
        /\ ret.j.kind # "none"
        /\ state = Idle(TRUE)
        /\ live = 0
        /\ \A n \in 0..MaxBuf :
               PollRead(Cur, n).res # "panic" /\ PollRead(Cur, n).h.live = 1
        /\ \A b \in SeqsUpTo(Plain, MaxBuf) :
               PollWrite(Cur, b).res # "panic" /\ PollWrite(Cur, b).h.live = 1
        /\ \A t \in SeekFrom :
               PollSeek(Cur, t).res # "panic" /\ PollSeek(Cur, t).h.live = 1

\* a write that quiesced a failed read pump returns its error
C2_Witness ==
    /\ ret.res = "err" /\ ret.op = "write" /\ ret.j.kind = "read"
    /\ state = Idle(TRUE)

\* C3: when the flush or close that joins the write task returns success,
\* the OS file holds, from the position where the episode started, exactly
\* the bytes the writes of the episode reported as accepted, in order, and
\* the OS position is just behind them.
C3_WritesReachFile ==
    (ret.op \in {"flush", "close"} /\ ret.res = "ok" /\ ret.j.kind = "write")
        => ret.j.intact

\* more bytes than the pipe holds, with a write suspended on the full pipe
C3_Witness ==
    /\ ret.op = "flush" /\ ret.res = "ok" /\ ret.j.kind = "write"
    /\ ret.j.intact
    /\ ret.j.wlen > PipeCap
    /\ ret.j.bp

Cancelled ==
    task.pc = "run" /\ task.kind \in {"read", "write"} /\ pipe.closed

\* the pump waits for the handle's side of the open pipe
Suspended ==
    /\ task.pc = "run" /\ ~pipe.closed
    /\ \/ task.kind = "read" /\ Len(pipe.buf) = PipeCap
       \/ task.kind = "write" /\ pipe.buf = <<>>

\* C4: with a fair worker thread a running task completes, with the OS file
\* in its result, unless it waits on the open pipe for the handle; a seek
\* task and a task whose pipe the handle has closed always complete, also a
\* read pump cancelled on a full pipe and a write pump cancelled on an empty
\* one.
C4_TaskCompletes ==
    /\ (task.pc = "run") ~> (task.pc = "done" \/ Suspended)
    /\ (task.pc = "run" /\ task.kind = "seek") ~> (task.pc = "done")
    /\ Cancelled ~> (task.pc = "done")

\* a read pump that was cancelled on a full pipe has completed
C4_Witness ==
    /\ task.kind = "read" /\ task.pc = "done" /\ task.res = "ok"
    /\ state = InRead(FALSE)
    /\ Len(pipe.buf) = PipeCap
    /\ pos < Len(disk)

\* C5: a write episode that follows a read episode starts at the OS position
\* where the read episode started plus the bytes the reads delivered.
C5_WriteAfterRead ==
    (state.tag = "InWrite" /\ ep.prevkind = "read") => ep.start = ep.prevend

\* C6: when write_all(B), seek(Start(0)), reads totalling len(B) and close
\* have all succeeded over an empty file, the bytes read are B; the script
\* fails only when an OS call has failed.
C6_RoundTrip ==
    /\ rt.pc = "done" => rt.got = rt.B
    /\ rt.pc = "failed" => rt.why = "io"

\* the round trip of a B longer than the pipe
C6_Witness ==
    rt.pc = "done" /\ rt.got = rt.B /\ Len(rt.B) > PipeCap /\ closed

\* C7: a read returns Ok(0) only when the OS file is exhausted and no byte
\* was left in the pipe.
C7_ZeroOnlyAtEof ==
    (ret.op = "read" /\ ret.res = "ok" /\ ret.val = 0)
        => (pos >= Len(disk) /\ ret.j.left = 0)

\* C8 as claimed: whenever a close returns, with success or with an error,
\* the task is joined and the handle is Idle without the OS file.
C8_CloseAlwaysReleases ==
    (ret.op = "close" /\ ret.res \in {"ok", "err"})
        => (state = Idle(FALSE) /\ live = 0 /\ task = NoTask)

\* C8 amended: a close that returns success has joined the task and left
\* the handle Idle without the OS file; a close that returns the error of
\* its flush has joined the task and left the handle Idle with the OS file.
C8_CloseReleasesOnSuccess ==
    /\ (ret.op = "close" /\ ret.res = "ok")
           => (state = Idle(FALSE) /\ live = 0 /\ task = NoTask /\ closed)
    /\ (ret.op = "close" /\ ret.res = "err")
           => (state = Idle(TRUE) /\ live = 0 /\ task = NoTask)

\* a close that joined an outstanding task and released the OS file
C8_Witness ==
    /\ ret.op = "close" /\ ret.res = "ok" /\ ret.j.kind # "none"
    /\ state = Idle(FALSE)

\* C9: a read, write, seek or flush polled after a close has completed
\* fails an assertion.
C9_NoSuccessAfterClose ==
    (closed /\ ret.op \in {"read", "write", "seek", "flush"})
        => ret.res = "panic"

\* C10: a seek to Start(Y) that met an in-flight seek for another target
\* and returns success returns Y, with the OS position at Y, the handle Idle
\* and no task live; at most one task is live at any time.
C10_SeekRetarget ==
    /\ live <= 1
    /\ (ret.op = "seek" /\ ret.res = "ok" /\ ret.re /\ ret.tgt.whence = "Start")
           => /\ ret.val = ret.tgt.off
              /\ pos = ret.tgt.off
              /\ state = Idle(TRUE)
              /\ live = 0

\* a retargeted seek has returned its own target
C10_Witness ==
    /\ ret.op = "seek" /\ ret.res = "ok" /\ ret.re
    /\ ret.tgt.whence = "Start" /\ ret.val = ret.tgt.off /\ ret.val > 0
    /\ ep.kind = "seek"

\* C11: once a read has returned 0 at end-of-stream the handle is Idle with
\* the OS file, and every further read of a caller that goes on reading (and
\* flushing), each operation polled until it returns, leaves the handle Idle
\* with the OS file again and returns 0, or the error of a failed OS read.
C11_EofStable ==
    (ret.op = "read" /\ ret.eof > 0 /\ ret.res # "pending")
        => /\ state = Idle(TRUE)
           /\ live = 0
           /\ \/ ret.res = "ok" /\ ret.val = 0
              \/ ret.res = "err" /\ ret.j.kind = "read"

\* a second read past end-of-stream has returned 0
C11_Witness ==
    /\ ret.op = "read" /\ ret.eof = 2
    /\ ret.res = "ok" /\ ret.val = 0
    /\ state = Idle(TRUE)

\* C12: a flush polled on a handle in state Idle returns success in that
\* poll, spawns no task, and leaves the state, the OS file handle, the OS
\* file and its position as they were.
C12_FlushIdleNoop ==
    [][(state.tag = "Idle" /\ ret'.op = "flush")
          => /\ ret'.res = "ok"
             /\ ret'.j.kind = "none"
             /\ state' = state
             /\ task' = task /\ live' = live /\ pipe' = pipe
             /\ disk' = disk /\ pos' = pos]_vars

\* a flush has returned success on a handle never used before
C12_Witness ==
    /\ ret.op = "flush" /\ ret.res = "ok" /\ ret.j.kind = "none"
    /\ ep.kind = "none"
    /\ state = Idle(TRUE) /\ task = NoTask /\ live = 0

\* a poll that joins a failed task returns the error, and only such a poll
\* returns an error; it leaves the handle Idle with the file and no task,
\* so the failed work is not started again by it
JoinSurfacesError ==
    /\ (ret.j.kind # "none" /\ ret.j.err) => ret.res = "err"
    /\ ret.res = "err"
          => /\ ret.j.kind # "none" /\ ret.j.err
             /\ state = Idle(TRUE) /\ task = NoTask /\ live = 0

\* C13 (as claimed): each I/O error produced inside a background task is
\* returned by exactly one operation, the one that joins the task, and no
\* operation retries the failed work; so a finished task has produced no
\* error beside the one its result carries.
C13_EveryErrorSurfacedOnce ==
    /\ JoinSurfacesError
    /\ task.pc \in {"exit", "done"}
          => ~(task.drain = "err" /\ task.flres = "err")

\* C13 (amended): the error a background task returns as its result is
\* returned by exactly one operation, the one that joins the task, and no
\* operation retries the failed work; the result of a write task is an
\* error exactly when its drain or its flush failed, the drain error when
\* both did.
C13_TaskErrorSurfacedOnce ==
    /\ JoinSurfacesError
    /\ (task.kind = "write" /\ task.pc \in {"exit", "done"})
          => (task.res = "err" <=> (task.drain = "err" \/ task.flres = "err"))

\* a flush has joined a failed write task and returned its error
C13_Witness ==
    /\ ret.op = "flush" /\ ret.res = "err"
    /\ ret.j.kind = "write" /\ ret.j.err
    /\ state = Idle(TRUE) /\ live = 0

\* a quiesce that returned not-ready, polled again before the worker has
\* moved, returns not-ready again and changes nothing
Reentrant ==
    LET s == PollStop(Cur)
    IN  s.res = "pending" => PollStop(s.h) = s

\* after a poll has taken a task's result that task is gone: the handle is
\* Idle with no task, or holds the task the same poll spawned for its own
\* operation
TakenOnce ==
    ret.j.kind # "none"
        => \/ state.tag = "Idle" /\ task = NoTask /\ live = 0
           \/ /\ ret.op \in {"read", "write", "seek"}
              /\ ret.res # "err"
              /\ task.kind = ret.op /\ live = 1
              /\ \/ ret.j.kind # ret.op
                 \/ ret.op = "seek" /\ ret.j.tgt # ret.tgt

\* the step that takes a result takes it from a finished task, and puts
\* Idle, or the state of a task spawned in this step, in its place
TakeStep ==
    (task.pc # "joined" /\ task' # task /\ task'.pc \in {"joined", "run"})
        => /\ task.pc = "done" /\ live = 1
           /\ ret'.j.kind = task.kind
           /\ task'.pc = "joined" => (state'.tag = "Idle" /\ live' = 0)
           /\ task'.pc = "run" => (state'.tag # "Idle" /\ live' = 1)

\* C14: however often quiesce is polled across suspension points, each
\* task's result is taken exactly once, from a finished task, and the task
\* is not polled again, because the state leaves the task's state in the
\* step that takes the result.
C14_QuiesceReentrant ==
    /\ [](Reentrant /\ TakenOnce /\ (state.tag = "Idle" <=> task = NoTask))
    /\ [][TakeStep]_vars

\* a flush dropped the writer with bytes in the pipe, was not ready, and a
\* later poll of it joined the write task after the pump had drained more
C14_Witness ==
    /\ ret.op = "flush" /\ ret.res = "ok"
    /\ ret.j.kind = "write" /\ ret.j.infl > ret.j.left
    /\ state = Idle(TRUE) /\ task = NoTask

\* the read pump of a cancelled episode returns Ok(()) without another OS
\* read: the cancellation itself makes no error
CancelledReadEndsOk ==
    (state.tag = "InRead" /\ ~state.end /\ task.pc = "run" /\ task' # task)
        => (task'.res = "ok" /\ pipe' = pipe /\ pos' = pos)

\* C15 (as claimed): the bytes that are in the pipe when quiesce drops the
\* handle's end of it are still all there when the task is joined, neither
\* delivered to the caller (Reading) nor written to the OS file (Writing),
\* and the cancellation makes no error.
C15_InFlightDiscarded ==
    /\ []((ret.j.kind \in {"read", "write"} /\ ret.j.infl > 0)
             => ret.j.left = ret.j.infl)
    /\ [][CancelledReadEndsOk]_vars

\* C15 (amended): the in-flight bytes of a cancelled Reading episode are
\* all discarded at the join and the cancellation makes no error; those of
\* a cancelled Writing episode are written to the OS file before the task
\* ends, and some are left only when the task returns an I/O error.
C15_InFlightReadDiscardedWriteDrained ==
    /\ []((ret.j.kind = "read" /\ ret.j.infl > 0)
             => ret.j.left = ret.j.infl)
    /\ []((ret.j.kind = "write" /\ ret.j.infl > 0)
             => /\ ret.j.left <= ret.j.infl
                /\ ret.j.left > 0 => ret.j.err
                /\ ~ret.j.err => (ret.j.left = 0 /\ ret.j.intact))
    /\ [][CancelledReadEndsOk]_vars

\* a flush cancelled a Writing episode with bytes in the pipe and joined
\* its task without error
C15_Witness ==
    /\ ret.op = "flush" /\ ret.res = "ok"
    /\ ret.j.kind = "write" /\ ret.j.infl > 0 /\ ret.j.left = 0
    /\ ret.j.intact

\* C16: no assertion of the handle fails before close, whatever the caller
\* polls and whichever not-ready operation it abandons for another: read
\* in state InRead finds the reader, write in state InWrite finds the
\* writer, and an operation in state Idle finds the OS file.
C16_NoPanicBeforeClose ==
    /\ ~closed => ret.res # "panic"
    /\ (~closed /\ state.tag = "Idle") => state.file

\* C17: a finished write task has called the OS flush exactly once; when
\* its drain ended normally (pipe closed and empty) its result is the
\* flush result, when its drain ended with an I/O error its result is that
\* error whatever the flush returned; it still holds the OS file, which
\* the join puts back into Idle.
C17_WriteTaskResult ==
    /\ (task.kind = "write" /\ task.pc \in {"exit", "done"})
          => /\ task.nflush = 1
             /\ task.drain \in {"ok", "err"}
             /\ task.flres \in {"ok", "err"}
             /\ task.drain = "ok"
                   => (pipe.closed /\ pipe.buf = <<>> /\ task.res = task.flres)
             /\ task.drain = "err" => task.res = "err"
             /\ state.tag = "InWrite" /\ live = 1
    /\ (ret.j.kind = "write" /\ state.tag = "Idle" /\ ~closed) => state.file

\* a write task whose drain failed has flushed, the flush succeeded, and
\* its result is the drain error
C17_Witness ==
    /\ task.kind = "write" /\ task.pc = "done"
    /\ task.drain = "err" /\ task.flres = "ok" /\ task.nflush = 1
    /\ task.res = "err"

\* C18: a seek for target Y that joins a seek task spawned for another
\* target X returns that task's error if it failed, leaving the handle
\* Idle with the OS file and no task; if it succeeded the seek returns no
\* position and the handle is in InSeek with a task for Y.
C18_StaleSeek ==
    (ret.op = "seek" /\ ret.j.kind = "seek" /\ ret.j.tgt # ret.tgt)
        => /\ ret.j.err
                => /\ ret.res = "err"
                   /\ state = Idle(TRUE) /\ task = NoTask /\ live = 0
           /\ ~ret.j.err
                => /\ ret.res = "pending"
                   /\ state = InSeek /\ live = 1
                   /\ task.kind = "seek" /\ task.target = ret.tgt

\* a seek has joined a failed seek task of another target
C18_Witness ==
    /\ ret.op = "seek" /\ ret.j.kind = "seek" /\ ret.j.tgt # ret.tgt
    /\ ret.j.err /\ ret.res = "err"
    /\ state = Idle(TRUE)

\* C20: a close polled on a handle that a close has already released
\* returns success, with no assertion failure and no task spawned, and the
\* handle stays Idle with no OS file.
C20_SecondClose ==
    (ret.op = "close" /\ ret.after)
        => /\ ret.res = "ok"
           /\ ret.j.kind = "none"
           /\ state = Idle(FALSE)
           /\ task = NoTask /\ live = 0

\* a second close has returned success
C20_Witness ==
    /\ ret.op = "close" /\ ret.after /\ ret.res = "ok"
    /\ closed /\ state = Idle(FALSE)

\* C19: with a fair worker thread, every read, write, seek, flush or close
\* call issued on a handle that has not been closed and polled until it is
\* ready eventually returns, for every file length and caller buffer size.
C19_EveryCallReturns == (rt.call # NoCall) ~> (rt.call = NoCall)

====
